---- MODULE Spec2Model ----
(***************************************************************************)
(* CartService (src/src/orders/dto/ghn-webhook.dto.ts, lines 188-568):     *)
(* a per-user cart kept in a TTL cache, whose mutations call the inventory *)
(* collaborator to reserve and release stock.                              *)
(*                                                                         *)
(* Every handler is one action (requests are served one after another in   *)
(* specification Spec).  Timestamps (updatedAt, addedAt) are left out: no  *)
(* handler reads them.                                                     *)
(***************************************************************************)
EXTENDS Integers, Sequences, FiniteSets, TLC

VARIABLES
    store,      \* cacheManager: key -> [value, ttl]; DOMAIN store = the keys present
    catalog,    \* ProductsService: productId -> [productName, sellingPrice, salePercentage]
    inventory,  \* InventoryService: productId -> [available, reserved]
    held,       \* history: units reserved minus released by each user's cart calls
    ret,        \* the last request: operation, arguments, outcome, collaborator calls
    handlers,   \* CartService: the addToCart calls in flight, each at one of its awaits
    sockets,    \* NotificationsGateway: every client socket and its handleConnection
    connectedUsers, \* NotificationsGateway.connectedUsers: userId -> socketId
    reviews,    \* reviewRepository: the rows of the review table
    orders,     \* orderRepository / orderItemRepository: the order items with their order
    reviewCalls,    \* ReviewsService: the calls of create / update / remove
    scan        \* SkinAnalysisService: the diseaseDetection call and the saved analyses

cartVars == <<store, catalog, inventory, held, ret>>
\* what no handler of the CartService run as one step touches
nonCartVars == <<handlers, sockets, connectedUsers, reviews, orders, reviewCalls, scan>>

vars == <<store, catalog, inventory, held, ret,
          handlers, sockets, connectedUsers, reviews, orders, reviewCalls, scan>>

----------------------------------------------------------------------------
(* Bounds of the model *)

\* units of every product in stock at the start
InitStock == 2
\* largest quantity a request asks for (addToCart and updateCartItem)
MaxQty == 2
\* client sockets of the notifications gateway
MaxSockets == 3
\* calls of the ReviewsService, any two of them possibly at once
MaxReviewCalls == 2
\* diseaseDetection calls, one after another
MaxScans == 2

Users == {"u1", "u2"}
\* products of the catalog
Products == {"p1", "p2"}
\* a product id the catalog does not know
UnknownProduct == "p9"
ProductIds == Products \cup {UnknownProduct}

\* salePercentage: number | null
Null == -999

\* the (sellingPrice, salePercentage) pairs the catalog moves between
PriceConfigs ==
    { [sellingPrice |-> 1000, salePercentage |-> 10],
      [sellingPrice |-> 15,   salePercentage |-> Null] }

\* the (sellingPrice, salePercentage) pairs of the price cases: no sale (null,
\* zero, negative), a sale with an integer result, sales whose result lies
\* halfway between two integers
PriceCases ==
    [ sellingPrice : {15, 1000}, salePercentage : {Null, -5, 0, 10, 50} ]

ProductOf(p, cfg) ==
    [ productName    |-> p,
      sellingPrice   |-> cfg.sellingPrice,
      salePercentage |-> cfg.salePercentage ]

----------------------------------------------------------------------------
(* Program constants *)

CartTtl == 86400000
TestTtl == 10000

----------------------------------------------------------------------------
(* Sequence helpers (Array.prototype.findIndex / filter / reduce) *)

\* items.findIndex(item => item.productId === productId); 0 stands for -1
FindIndex(items, p) ==
    IF \E i \in 1..Len(items) : items[i].productId = p
    THEN CHOOSE i \in 1..Len(items) :
            /\ items[i].productId = p
            /\ \A j \in 1..(i - 1) : items[j].productId # p
    ELSE 0

RECURSIVE SumQuantity(_)
SumQuantity(items) ==
    IF items = <<>> THEN 0
    ELSE Head(items).quantity + SumQuantity(Tail(items))

RECURSIVE SumPrice(_)
SumPrice(items) ==
    IF items = <<>> THEN 0
    ELSE Head(items).price * Head(items).quantity + SumPrice(Tail(items))

\* items.splice(index): the item and every item behind it go
SpliceToEnd(items, i) == SubSeq(items, 1, i - 1)

\* items.splice(index, 1)
Splice(items, i) ==
    [ j \in 1..(Len(items) - 1) |-> IF j < i THEN items[j] ELSE items[j + 1] ]

----------------------------------------------------------------------------
(* CartService helpers *)

\* one key for the carts of all users
getCartKeyShared(u) == <<"cart", "all">>

\* `cart:${userId}`
getCartKey(u) == <<"cart", u>>

\* `test:${Date.now()}`: the connection-test key of addToCart
TestKey == <<"test", "now">>

\* Math.round(x / 100) for an integer x: the nearest integer, halves up
RoundDiv100(x) == (x + 50) \div 100

\* the discounted price is cut to an integer, not rounded
calculateFinalPriceTruncated(sellingPrice, salePercentage) ==
    IF salePercentage = Null \/ salePercentage = 0 \/ salePercentage <= 0
    THEN sellingPrice
    ELSE (100 * sellingPrice - sellingPrice * salePercentage) \div 100

calculateFinalPrice(sellingPrice, salePercentage) ==
    IF salePercentage = Null \/ salePercentage = 0 \/ salePercentage <= 0
    THEN sellingPrice
    ELSE RoundDiv100(100 * sellingPrice - sellingPrice * salePercentage)

\* product.salePercentage || 0
SaleOrZero(salePercentage) ==
    IF salePercentage = Null THEN 0 ELSE salePercentage

EmptyCart(u) ==
    [ userId |-> u, items |-> <<>>, totalItems |-> 0, totalPrice |-> 0 ]

\* cacheManager.get / set / del
CacheHas(s, k) == k \in DOMAIN s
\* the ttl is taken for seconds
CacheSetSeconds(s, k, v, ttl) ==
    [ x \in (DOMAIN s) \cup {k} |->
        IF x = k THEN [value |-> v, ttl |-> ttl \div 1000] ELSE s[x] ]

CacheSet(s, k, v, ttl) ==
    [ x \in (DOMAIN s) \cup {k} |->
        IF x = k THEN [value |-> v, ttl |-> ttl] ELSE s[x] ]
CacheDel(s, k) == [ x \in (DOMAIN s) \ {k} |-> s[x] ]

\* getCart(userId) against the cache s
getCart(s, u) ==
    IF CacheHas(s, getCartKey(u)) THEN s[getCartKey(u)].value ELSE EmptyCart(u)

\* a recalculation that leaves totalPrice as it was
RecalculateItemsOnly(cart) ==
    [ cart EXCEPT !.totalItems = SumQuantity(cart.items) ]

\* "Recalculate totals"
Recalculate(cart) ==
    [ cart EXCEPT !.totalItems = SumQuantity(cart.items),
                  !.totalPrice = SumPrice(cart.items) ]

----------------------------------------------------------------------------
(* InventoryService: per-product available / reserved counters, one atomic *)
(* step per call                                                            *)

\* reserveStock(productId, quantity).success
ReserveSucceeds(inv, p, q) == inv[p].available >= q

\* the value reserveStock(productId, quantity) resolves to
ReserveResult(inv, p, q) == [ success |-> ReserveSucceeds(inv, p, q) ]

\* the counters after reserveStock(productId, quantity); a refusal changes nothing
reserveStock(inv, p, q) ==
    IF ReserveSucceeds(inv, p, q)
    THEN [ inv EXCEPT ![p] = [ available |-> @.available - q,
                               reserved  |-> @.reserved + q ] ]
    ELSE inv

\* the counters after releaseReservation(productId, quantity)
releaseReservation(inv, p, q) ==
    [ inv EXCEPT ![p] = [ available |-> @.available + q,
                          reserved  |-> @.reserved - q ] ]

ReserveCall(p, q, ok) ==
    [ fn |-> "reserveStock", productId |-> p, quantity |-> q, success |-> ok ]
ReleaseCall(p, q) ==
    [ fn |-> "releaseReservation", productId |-> p, quantity |-> q, success |-> TRUE ]

SetWrite(k, ttl) == [ fn |-> "set", key |-> k, ttl |-> ttl ]
DelWrite(k) == [ fn |-> "del", key |-> k, ttl |-> 0 ]

\* history of the units held through user u's cart calls
HeldAdd(h, u, p, q) == [ h EXCEPT ![u][p] = @ + q ]

----------------------------------------------------------------------------
(* What a request left behind.  before / existed: the user's cart as the    *)
(* request found it (what its getCart resolves to, and whether the key was *)
(* in the cache); productIds: the list removeItemsByProductIds was given.   *)

Result(op, u, p, q, error, message, reported, cart, calls, writes) ==
    [ op |-> op, userId |-> u, productId |-> p, quantity |-> q,
      error |-> error, message |-> message, reported |-> reported,
      cart |-> cart, calls |-> calls, writes |-> writes,
      before |-> getCart(store, u), existed |-> CacheHas(store, getCartKey(u)),
      productIds |-> {}, selected |-> FALSE ]

NoRequest ==
    Result("none", "none", "none", 0, "none", "none", 0, EmptyCart("none"), <<>>, <<>>)

----------------------------------------------------------------------------
(* The state after construction of what a specification leaves alone *)

\* the addToCart calls that may be in flight at once
Handlers == {"h1", "h2"}

\* an addToCart call that has not been made
IdleHandler ==
    [ pc |-> "idle", userId |-> "none", productId |-> "none", quantity |-> 0,
      cart |-> EmptyCart("none"), error |-> "none", wrote |-> 0 ]

NoHandlers == [ h \in Handlers |-> IdleHandler ]

\* the client sockets: each connects once
Sockets == 1..MaxSockets

\* a socket that has not connected: no client.userId
NewSocket ==
    [ pc |-> "new", token |-> "none", userId |-> "none", connected |-> FALSE,
      early |-> FALSE ]

NoSockets == [ s \in Sockets |-> NewSocket ]

\* private connectedUsers = new Map<string, string>()
EmptyMap == [ u \in {} |-> 0 ]

\* the calls of the ReviewsService
ReviewCallIds == 1..MaxReviewCalls

\* a call that has not been made
NoReviewCall ==
    [ pc |-> "idle", op |-> "none", userId |-> "none", productId |-> "none",
      reviewId |-> 0, rating |-> 0, error |-> "none", dup |-> FALSE ]

NoReviewCalls == [ c \in ReviewCallIds |-> NoReviewCall ]

\* no diseaseDetection call, no saved analysis
NoScan ==
    [ pc |-> "idle", notes |-> "none", events |-> <<>>, error |-> "none",
      cls |-> "none", seg |-> "none", mask |-> "null", calls |-> 0,
      savedBefore |-> 0, saved |-> <<>> ]

CartAtRest ==
    /\ handlers = NoHandlers

GatewayAtRest ==
    /\ sockets = NoSockets
    /\ connectedUsers = EmptyMap

ReviewsAtRest ==
    /\ reviews = {}
    /\ orders = {}
    /\ reviewCalls = NoReviewCalls

ScanAtRest ==
    /\ scan = NoScan

----------------------------------------------------------------------------
\* the cache with no key
EmptyStore == [ k \in {} |-> NoRequest ]

Init ==
    /\ CartAtRest /\ GatewayAtRest /\ ReviewsAtRest /\ ScanAtRest
    /\ store = EmptyStore
    /\ \E f \in [ Products -> PriceConfigs ] :
          catalog = [ p \in Products |-> ProductOf(p, f[p]) ]
    /\ inventory = [ p \in Products |-> [ available |-> InitStock, reserved |-> 0 ] ]
    /\ held = [ u \in Users |-> [ p \in Products |-> 0 ] ]
    /\ ret = NoRequest

\* the CartService as constructed, for the specifications of the other services
CartUnused ==
    /\ CartAtRest
    /\ store = EmptyStore
    /\ catalog = [ p \in Products |->
                     ProductOf(p, [sellingPrice |-> 1000, salePercentage |-> 10]) ]
    /\ inventory = [ p \in Products |-> [ available |-> InitStock, reserved |-> 0 ] ]
    /\ held = [ u \in Users |-> [ p \in Products |-> 0 ] ]
    /\ ret = NoRequest

----------------------------------------------------------------------------
(* getCart *)

\* the cart made up for a user without a record is saved
GetCartPersistsEmpty(u) ==
    /\ UNCHANGED nonCartVars
    /\ /\ ret' = Result("getCart", u, "none", 0, "none", "none", 0,
                        getCart(store, u), <<>>, <<>>)
       /\ store' = CacheSet(store, getCartKey(u), getCart(store, u), CartTtl)
       /\ UNCHANGED <<catalog, inventory, held>>

GetCart(u) ==
    /\ UNCHANGED nonCartVars
    /\ /\ ret' = Result("getCart", u, "none", 0, "none", "none", 0,
                        getCart(store, u), <<>>, <<>>)
       /\ UNCHANGED <<store, catalog, inventory, held>>

----------------------------------------------------------------------------
(* addToCart *)

\* the result of reserveStock is not looked at
AddRefusedIgnored(reserveResult) == FALSE

\* if (!reserveResult.success) throw BadRequestException
AddRefused(reserveResult) == ~reserveResult.success

\* a new item that starts unselected
NewItemUnselected(product, p, q) ==
    [ productId      |-> p,
      productName    |-> product.productName,
      price          |-> calculateFinalPrice(product.sellingPrice, product.salePercentage),
      originalPrice  |-> product.sellingPrice,
      salePercentage |-> SaleOrZero(product.salePercentage),
      quantity       |-> q,
      selected       |-> FALSE ]

\* const newItem: CartItem = {...}
NewItem(product, p, q) ==
    [ productId      |-> p,
      productName    |-> product.productName,
      price          |-> calculateFinalPrice(product.sellingPrice, product.salePercentage),
      originalPrice  |-> product.sellingPrice,
      salePercentage |-> SaleOrZero(product.salePercentage),
      quantity       |-> q,
      selected       |-> TRUE ]

\* an add that pushes a new item whether or not the product is in the cart
AddedItemsAlwaysPush(items, product, p, q) ==
    Append(items, NewItem(product, p, q))

\* a re-add that raises the quantity and keeps the prices of the first add
AddedItemsStalePrice(items, product, p, q) ==
    LET i == FindIndex(items, p)
    IN  IF i > 0
        THEN [ items EXCEPT ![i].quantity = @ + q ]
        ELSE Append(items, NewItem(product, p, q))

\* the item list after the "existingItemIndex > -1" branch or the push
AddedItems(items, product, p, q) ==
    LET i == FindIndex(items, p)
        finalPrice == calculateFinalPrice(product.sellingPrice, product.salePercentage)
    IN  IF i > 0
        THEN [ items EXCEPT ![i] =
                 [ @ EXCEPT !.quantity = @ + q,
                            !.price = finalPrice,
                            !.originalPrice = product.sellingPrice,
                            !.salePercentage = SaleOrZero(product.salePercentage) ] ]
        ELSE Append(items, NewItem(product, p, q))

\* The connection test writes `test:<now>` under a name no request reads again:
\* the write is recorded in ret.writes, and store keeps the cart keys only.
AddToCart(u, p, q) ==
    /\ UNCHANGED nonCartVars
    /\ LET testWrite == <<SetWrite(TestKey, TestTtl)>>
           cart == getCart(store, u)
           reserveResult == ReserveResult(inventory, p, q)
           newCart == Recalculate([ cart EXCEPT !.items = AddedItems(@, catalog[p], p, q) ])
       IN  IF p \notin DOMAIN catalog
           THEN /\ UNCHANGED store
                /\ ret' = Result("addToCart", u, p, q, "NotFoundException",
                                 "product not found", 0, EmptyCart(u), <<>>, testWrite)
                /\ UNCHANGED <<catalog, inventory, held>>
           ELSE IF AddRefused(reserveResult)
           THEN /\ UNCHANGED store
                /\ inventory' = reserveStock(inventory, p, q)
                /\ ret' = Result("addToCart", u, p, q, "BadRequestException",
                                 "insufficient stock", 0, EmptyCart(u),
                                 <<ReserveCall(p, q, reserveResult.success)>>, testWrite)
                /\ UNCHANGED <<catalog, held>>
           ELSE /\ store' = CacheSet(store, getCartKey(u), newCart, CartTtl)
                /\ inventory' = reserveStock(inventory, p, q)
                /\ held' = IF reserveResult.success THEN HeldAdd(held, u, p, q) ELSE held
                /\ ret' = Result("addToCart", u, p, q, "none", "none", 0, newCart,
                                 <<ReserveCall(p, q, reserveResult.success)>>,
                                 testWrite \o <<SetWrite(getCartKey(u), CartTtl)>>)
                /\ UNCHANGED catalog

----------------------------------------------------------------------------
(* updateCartItem *)

\* a check that lets quantity 0 through
InvalidQuantityNegativeOnly(q) == q < 0

\* if (quantity <= 0) throw BadRequestException
InvalidQuantity(q) == q <= 0

\* the result of reserveStock is not looked at
UpdateRefusedIgnored(reserveResult) == FALSE

\* if (!reserveResult.success) throw BadRequestException
UpdateRefused(reserveResult) == ~reserveResult.success

\* the number the refusal's message gives: `Only ${oldQuantity} available in stock.`
ReportedAvailable(oldQuantity) == oldQuantity

\* an update that stores one unit less than asked for
UpdatedItemsOneLess(items, i, q) == [ items EXCEPT ![i].quantity = q - 1 ]

\* an update that adds the new quantity to the old one
UpdatedItemsIncrement(items, i, q) == [ items EXCEPT ![i].quantity = @ + q ]

\* cart.items[itemIndex].quantity = quantity
UpdatedItems(items, i, q) == [ items EXCEPT ![i].quantity = q ]

UpdateCartItem(u, p, q) ==
    /\ UNCHANGED nonCartVars
    /\ LET cart == getCart(store, u)
           i == FindIndex(cart.items, p)
           oldQuantity == cart.items[i].quantity
           quantityDiff == q - oldQuantity
           reserveResult == ReserveResult(inventory, p, quantityDiff)
           newCart == Recalculate([ cart EXCEPT !.items = UpdatedItems(@, i, q) ])
           saved == /\ store' = CacheSet(store, getCartKey(u), newCart, CartTtl)
                    /\ UNCHANGED catalog
           writes == <<SetWrite(getCartKey(u), CartTtl)>>
       IN  IF InvalidQuantity(q)
           THEN /\ ret' = Result("updateCartItem", u, p, q, "BadRequestException",
                                 "quantity must be greater than 0", 0, EmptyCart(u),
                                 <<>>, <<>>)
                /\ UNCHANGED <<store, catalog, inventory, held>>
           ELSE IF i = 0
           THEN /\ ret' = Result("updateCartItem", u, p, q, "NotFoundException",
                                 "not found in cart", 0, EmptyCart(u), <<>>, <<>>)
                /\ UNCHANGED <<store, catalog, inventory, held>>
           ELSE IF quantityDiff > 0 /\ UpdateRefused(reserveResult)
           THEN /\ inventory' = reserveStock(inventory, p, quantityDiff)
                /\ ret' = Result("updateCartItem", u, p, q, "BadRequestException",
                                 "insufficient stock", ReportedAvailable(oldQuantity),
                                 EmptyCart(u),
                                 <<ReserveCall(p, quantityDiff, reserveResult.success)>>, <<>>)
                /\ UNCHANGED <<store, catalog, held>>
           ELSE IF quantityDiff > 0
           THEN /\ inventory' = reserveStock(inventory, p, quantityDiff)
                /\ held' = IF reserveResult.success
                           THEN HeldAdd(held, u, p, quantityDiff) ELSE held
                /\ ret' = Result("updateCartItem", u, p, q, "none", "none", 0, newCart,
                                 <<ReserveCall(p, quantityDiff, reserveResult.success)>>, writes)
                /\ saved
           ELSE IF quantityDiff < 0
           THEN /\ inventory' = releaseReservation(inventory, p, -quantityDiff)
                /\ held' = HeldAdd(held, u, p, quantityDiff)
                /\ ret' = Result("updateCartItem", u, p, q, "none", "none", 0, newCart,
                                 <<ReleaseCall(p, -quantityDiff)>>, writes)
                /\ saved
           ELSE /\ ret' = Result("updateCartItem", u, p, q, "none", "none", 0, newCart,
                                 <<>>, writes)
                /\ saved
                /\ UNCHANGED <<inventory, held>>

----------------------------------------------------------------------------
(* removeFromCart *)

\* a save that writes the cart whether or not an item is left
SaveAlways(s, u, cart) == CacheSet(s, getCartKey(u), cart, CartTtl)

\* "Save to Redis": the key is deleted when no item is left, written otherwise
SaveOrDelete(s, u, cart) ==
    IF Len(cart.items) = 0
    THEN CacheDel(s, getCartKey(u))
    ELSE CacheSet(s, getCartKey(u), cart, CartTtl)

SaveOrDeleteWrite(u, cart) ==
    IF Len(cart.items) = 0
    THEN <<DelWrite(getCartKey(u))>>
    ELSE <<SetWrite(getCartKey(u), CartTtl)>>

RemoveFromCart(u, p) ==
    /\ UNCHANGED nonCartVars
    /\ LET cart == getCart(store, u)
           i == FindIndex(cart.items, p)
           item == cart.items[i]
           newCart == Recalculate([ cart EXCEPT !.items = Splice(@, i) ])
       IN  IF i = 0
           THEN /\ ret' = Result("removeFromCart", u, p, 0, "NotFoundException",
                                 "not found in cart", 0, EmptyCart(u), <<>>, <<>>)
                /\ UNCHANGED <<store, catalog, inventory, held>>
           ELSE /\ inventory' = releaseReservation(inventory, item.productId, item.quantity)
                /\ held' = HeldAdd(held, u, item.productId, -item.quantity)
                /\ store' = SaveOrDelete(store, u, newCart)
                /\ ret' = Result("removeFromCart", u, p, 0, "none", "none", 0, newCart,
                                 <<ReleaseCall(item.productId, item.quantity)>>,
                                 SaveOrDeleteWrite(u, newCart))
                /\ UNCHANGED catalog

----------------------------------------------------------------------------
(* toggleSelectItem, toggleSelectAll *)

\* the flag is set on every item, not on the one found
SelectItemAndRest(items, i, selected) ==
    [ j \in 1..Len(items) |-> [ items[j] EXCEPT !.selected = selected ] ]

\* item.selected = selected, on the item found
SelectItem(items, i, selected) == [ items EXCEPT ![i].selected = selected ]

\* items.forEach(item => item.selected = selected)
SelectAll(items, selected) ==
    [ j \in 1..Len(items) |-> [ items[j] EXCEPT !.selected = selected ] ]

\* a product that is not in the cart is passed over: the cart is saved as read
ToggleSelectItemMissingSaves(u, p, selected) ==
    /\ UNCHANGED nonCartVars
    /\ LET cart == getCart(store, u)
           i == FindIndex(cart.items, p)
           newCart == IF i = 0 THEN cart
                      ELSE [ cart EXCEPT !.items = SelectItem(@, i, selected) ]
       IN  /\ store' = CacheSet(store, getCartKey(u), newCart, CartTtl)
           /\ ret' = [ Result("toggleSelectItem", u, p, 0, "none", "none", 0, newCart,
                              <<>>, <<SetWrite(getCartKey(u), CartTtl)>>)
                       EXCEPT !.selected = selected ]
           /\ UNCHANGED <<catalog, inventory, held>>

ToggleSelectItem(u, p, selected) ==
    /\ UNCHANGED nonCartVars
    /\ LET cart == getCart(store, u)
           i == FindIndex(cart.items, p)
           newCart == [ cart EXCEPT !.items = SelectItem(@, i, selected) ]
       IN  IF i = 0
           THEN /\ ret' = [ Result("toggleSelectItem", u, p, 0, "NotFoundException",
                                   "not found in cart", 0, EmptyCart(u), <<>>, <<>>)
                            EXCEPT !.selected = selected ]
                /\ UNCHANGED <<store, catalog, inventory, held>>
           ELSE /\ store' = CacheSet(store, getCartKey(u), newCart, CartTtl)
                /\ ret' = [ Result("toggleSelectItem", u, p, 0, "none", "none", 0, newCart,
                                   <<>>, <<SetWrite(getCartKey(u), CartTtl)>>)
                            EXCEPT !.selected = selected ]
                /\ UNCHANGED <<catalog, inventory, held>>

ToggleSelectAll(u, selected) ==
    /\ UNCHANGED nonCartVars
    /\ LET cart == getCart(store, u)
           newCart == [ cart EXCEPT !.items = SelectAll(@, selected) ]
       IN  /\ store' = CacheSet(store, getCartKey(u), newCart, CartTtl)
           /\ ret' = [ Result("toggleSelectAll", u, "none", 0, "none", "none", 0, newCart,
                              <<>>, <<SetWrite(getCartKey(u), CartTtl)>>)
                       EXCEPT !.selected = selected ]
           /\ UNCHANGED <<catalog, inventory, held>>

----------------------------------------------------------------------------
(* removeSelectedItems, removeItemsByProductIds: no inventory call *)

\* the filter keeps the selected items
KeepsSelected(item) == item.selected = TRUE

IsUnselected(item) == item.selected # TRUE

RemoveSelectedItems(u) ==
    /\ UNCHANGED nonCartVars
    /\ LET cart == getCart(store, u)
           newCart == Recalculate([ cart EXCEPT !.items = SelectSeq(@, IsUnselected) ])
       IN  /\ store' = SaveOrDelete(store, u, newCart)
           /\ ret' = Result("removeSelectedItems", u, "none", 0, "none", "none", 0,
                            newCart, <<>>, SaveOrDeleteWrite(u, newCart))
           /\ UNCHANGED <<catalog, inventory, held>>

\* the filter keeps the listed items
KeepsListed(item, productIds) == item.productId \in productIds

\* !productIds.includes(item.productId)
NotInList(item, productIds) == item.productId \notin productIds

RemoveItemsByProductIds(u, productIds) ==
    /\ UNCHANGED nonCartVars
    /\ LET cart == getCart(store, u)
           NotListed(item) == NotInList(item, productIds)
           newCart == Recalculate([ cart EXCEPT !.items = SelectSeq(@, NotListed) ])
       IN  IF Len(cart.items) = 0
           THEN /\ ret' = [ Result("removeItemsByProductIds", u, "none", 0,
                                   "NotFoundException", "cart is empty", 0, EmptyCart(u),
                                   <<>>, <<>>)
                            EXCEPT !.productIds = productIds ]
                /\ UNCHANGED <<store, catalog, inventory, held>>
           ELSE /\ store' = SaveOrDelete(store, u, newCart)
                /\ ret' = [ Result("removeItemsByProductIds", u, "none", 0, "none", "none",
                                   0,
                                   IF Len(newCart.items) = 0 THEN EmptyCart(u) ELSE newCart,
                                   <<>>, SaveOrDeleteWrite(u, newCart))
                            EXCEPT !.productIds = productIds ]
                /\ UNCHANGED <<catalog, inventory, held>>

----------------------------------------------------------------------------
(* clearCart *)

RECURSIVE ReleaseAll(_, _)
ReleaseAll(inv, items) ==
    IF items = <<>> THEN inv
    ELSE ReleaseAll(releaseReservation(inv, Head(items).productId, Head(items).quantity),
                    Tail(items))

RECURSIVE HeldReleaseAll(_, _, _)
HeldReleaseAll(h, u, items) ==
    IF items = <<>> THEN h
    ELSE HeldReleaseAll(HeldAdd(h, u, Head(items).productId, -Head(items).quantity),
                        u, Tail(items))

\* a loop that releases one unit of every item
ReleaseCallsOneUnit(items) ==
    [ j \in 1..Len(items) |-> ReleaseCall(items[j].productId, 1) ]

\* for (const item of cart.items) await releaseReservation(item.productId, item.quantity)
ReleaseCalls(items) ==
    [ j \in 1..Len(items) |-> ReleaseCall(items[j].productId, items[j].quantity) ]

ClearCart(u) ==
    /\ UNCHANGED nonCartVars
    /\ LET cart == getCart(store, u)
       IN  /\ inventory' = ReleaseAll(inventory, cart.items)
           /\ held' = HeldReleaseAll(held, u, cart.items)
           /\ store' = CacheDel(store, getCartKey(u))
           /\ ret' = Result("clearCart", u, "none", 0, "none", "none", 0, EmptyCart(u),
                            ReleaseCalls(cart.items),
                            <<DelWrite(getCartKey(u))>>)
           /\ UNCHANGED catalog

----------------------------------------------------------------------------
(* The environment: a cache entry outlives its ttl; the catalog is edited *)

EnvStep(what) ==
    Result(what, "none", "none", 0, "none", "none", 0, EmptyCart("none"), <<>>, <<>>)

Expire(k) ==
    /\ UNCHANGED nonCartVars
    /\ /\ CacheHas(store, k)
       /\ store' = CacheDel(store, k)
       /\ ret' = EnvStep("expire")
       /\ UNCHANGED <<catalog, inventory, held>>

CatalogChange(p, cfg) ==
    /\ UNCHANGED nonCartVars
    /\ /\ catalog[p] # ProductOf(p, cfg)
       /\ catalog' = [ catalog EXCEPT ![p] = ProductOf(p, cfg) ]
       /\ ret' = EnvStep("catalog")
       /\ UNCHANGED <<store, inventory, held>>

----------------------------------------------------------------------------
\* the requests of one user
Request(u) ==
    \/ GetCart(u)
    \/ \E p \in ProductIds, q \in 1..MaxQty : AddToCart(u, p, q)
    \/ \E p \in Products, q \in (-1)..(MaxQty + 1) : UpdateCartItem(u, p, q)
    \/ \E p \in Products : RemoveFromCart(u, p)
    \/ \E p \in Products, b \in BOOLEAN : ToggleSelectItem(u, p, b)
    \/ \E b \in BOOLEAN : ToggleSelectAll(u, b)
    \/ RemoveSelectedItems(u)
    \/ \E ids \in SUBSET Products : RemoveItemsByProductIds(u, ids)
    \/ ClearCart(u)

Environment ==
    \/ \E k \in DOMAIN store : Expire(k)
    \/ \E p \in Products, cfg \in PriceConfigs : CatalogChange(p, cfg)

\* one user's requests, served one after another
Next ==
    \/ Request("u1")
    \/ Environment

Spec == Init /\ [][Next]_vars

\* cart requests and catalog edits only: no cache entry expires
NextCartOps ==
    \/ Request("u1")
    \/ \E p \in Products, cfg \in PriceConfigs : CatalogChange(p, cfg)

SpecCartOps == Init /\ [][NextCartOps]_vars

----------------------------------------------------------------------------
(* An inventory whose releaseReservation may reject.  No handler catches:   *)
(* the rejection leaves the handler at the await, before anything it does  *)
(* after the call.                                                          *)

FailedReleaseCall(p, q) == [ ReleaseCall(p, q) EXCEPT !.success = FALSE ]

\* the units reserved through every user's cart calls are those of the carts
ReservationsInSync ==
    \A u \in Users, p \in Products :
        held[u][p] = IF CacheHas(store, getCartKey(u))
                        /\ FindIndex(getCart(store, u).items, p) > 0
                     THEN getCart(store, u).items[FindIndex(getCart(store, u).items, p)].quantity
                     ELSE 0

\* clearCart whose k-th releaseReservation rejects: the items before the k-th
\* are released, the loop and the handler end there, del is not reached
ClearCartReleaseFails(u, k) ==
    /\ UNCHANGED nonCartVars
    /\ LET cart == getCart(store, u)
           done == SubSeq(cart.items, 1, k - 1)
       IN  /\ k \in 1..Len(cart.items)
           /\ ReservationsInSync
           /\ inventory' = ReleaseAll(inventory, done)
           /\ held' = HeldReleaseAll(held, u, done)
           /\ ret' = Result("clearCart", u, "none", 0, "ReleaseError", "release failed", 0,
                            EmptyCart(u),
                            ReleaseCalls(done)
                               \o <<FailedReleaseCall(cart.items[k].productId,
                                                       cart.items[k].quantity)>>,
                            <<>>)
           /\ UNCHANGED <<store, catalog>>

\* removeFromCart whose releaseReservation rejects: the splice is not reached
RemoveFromCartReleaseFails(u, p) ==
    /\ UNCHANGED nonCartVars
    /\ LET cart == getCart(store, u)
           i == FindIndex(cart.items, p)
       IN  /\ i > 0
           /\ ret' = Result("removeFromCart", u, p, 0, "ReleaseError", "release failed", 0,
                            EmptyCart(u),
                            <<FailedReleaseCall(p, cart.items[i].quantity)>>, <<>>)
           /\ UNCHANGED <<store, catalog, inventory, held>>

\* updateCartItem whose releaseReservation rejects: the quantity is not set
UpdateCartItemReleaseFails(u, p, q) ==
    /\ UNCHANGED nonCartVars
    /\ LET cart == getCart(store, u)
           i == FindIndex(cart.items, p)
       IN  /\ ~InvalidQuantity(q)
           /\ i > 0
           /\ q < cart.items[i].quantity
           /\ ret' = Result("updateCartItem", u, p, q, "ReleaseError", "release failed", 0,
                            EmptyCart(u),
                            <<FailedReleaseCall(p, cart.items[i].quantity - q)>>, <<>>)
           /\ UNCHANGED <<store, catalog, inventory, held>>

NextReleaseFails ==
    \/ Request("u1")
    \/ \E k \in 1..Cardinality(Products) : ClearCartReleaseFails("u1", k)
    \/ \E p \in Products : RemoveFromCartReleaseFails("u1", p)
    \/ \E p \in Products, q \in 1..MaxQty : UpdateCartItemReleaseFails("u1", p, q)

SpecReleaseFails == Init /\ [][NextReleaseFails]_vars

----------------------------------------------------------------------------
(* Two users use their carts, one request after another: u1 with every   *)
(* operation, u2 filling and emptying a cart of its own                   *)

NextTwoUsers ==
    \/ Request("u1")
    \/ \E p \in Products : AddToCart("u2", p, 1)
    \/ \E p \in Products : RemoveFromCart("u2", p)

SpecTwoUsers == Init /\ [][NextTwoUsers]_vars

----------------------------------------------------------------------------
(* addToCart as the chain of awaited calls it is: two calls for one user,   *)
(* each resumed at its awaits in any order.  The cache hands every get a    *)
(* copy of the record (a Redis store), so each call works on its snapshot.  *)

\* the write orders given out so far
Written == { h \in Handlers : handlers[h].wrote > 0 }

\* the call is made: connection test, then productsService.findOne
HandlerBegin(h, u, p, q) ==
    /\ handlers[h].pc = "idle"
    /\ handlers' = [ handlers EXCEPT ![h] =
          [ @ EXCEPT !.userId = u, !.productId = p, !.quantity = q,
                     !.pc = IF p \in DOMAIN catalog THEN "read" ELSE "done",
                     !.error = IF p \in DOMAIN catalog THEN "none"
                               ELSE "NotFoundException" ] ]
    /\ UNCHANGED <<cartVars, sockets, connectedUsers, reviews, orders, reviewCalls, scan>>

\* const cart = await this.getCart(userId)
HandlerRead(h) ==
    /\ handlers[h].pc = "read"
    /\ handlers' = [ handlers EXCEPT ![h] =
          [ @ EXCEPT !.cart = getCart(store, handlers[h].userId), !.pc = "reserve" ] ]
    /\ UNCHANGED <<cartVars, sockets, connectedUsers, reviews, orders, reviewCalls, scan>>

\* await this.inventoryService.reserveStock(productId, quantity)
HandlerReserve(h) ==
    LET call == handlers[h]
        reserveResult == ReserveResult(inventory, call.productId, call.quantity)
    IN  /\ call.pc = "reserve"
        /\ inventory' = reserveStock(inventory, call.productId, call.quantity)
        /\ held' = IF reserveResult.success
                   THEN HeldAdd(held, call.userId, call.productId, call.quantity)
                   ELSE held
        /\ handlers' = [ handlers EXCEPT ![h] =
              IF AddRefused(reserveResult)
              THEN [ @ EXCEPT !.pc = "done", !.error = "BadRequestException" ]
              ELSE [ @ EXCEPT !.pc = "write" ] ]
        /\ UNCHANGED <<store, catalog, ret,
                       sockets, connectedUsers, reviews, orders, reviewCalls, scan>>

\* the cart is read again at the write and the item added to what it holds then
HandlerWriteFresh(h) ==
    LET call == handlers[h]
        cart == getCart(store, call.userId)
        newCart == Recalculate([ cart EXCEPT !.items =
                      AddedItems(@, catalog[call.productId], call.productId,
                                 call.quantity) ])
    IN  /\ call.pc = "write"
        /\ store' = CacheSet(store, getCartKey(call.userId), newCart, CartTtl)
        /\ handlers' = [ handlers EXCEPT ![h] =
              [ @ EXCEPT !.pc = "done", !.wrote = Cardinality(Written) + 1 ] ]
        /\ UNCHANGED <<catalog, inventory, held, ret,
                       sockets, connectedUsers, reviews, orders, reviewCalls, scan>>

\* the item goes into the cart read before, and that cart is set
HandlerWrite(h) ==
    LET call == handlers[h]
        newCart == Recalculate([ call.cart EXCEPT !.items =
                      AddedItems(@, catalog[call.productId], call.productId,
                                 call.quantity) ])
    IN  /\ call.pc = "write"
        /\ store' = CacheSet(store, getCartKey(call.userId), newCart, CartTtl)
        /\ handlers' = [ handlers EXCEPT ![h] =
              [ @ EXCEPT !.pc = "done", !.wrote = Cardinality(Written) + 1 ] ]
        /\ UNCHANGED <<catalog, inventory, held, ret,
                       sockets, connectedUsers, reviews, orders, reviewCalls, scan>>

NextRace ==
    \/ \E h \in Handlers, p \in ProductIds, q \in 1..MaxQty : HandlerBegin(h, "u1", p, q)
    \/ \E h \in Handlers : HandlerRead(h)
    \/ \E h \in Handlers : HandlerReserve(h)
    \/ \E h \in Handlers : HandlerWrite(h)

SpecRace == Init /\ [][NextRace]_vars

----------------------------------------------------------------------------
(* NotificationsGateway (src/src/cart/cart.module.ts, lines 240-394).       *)
(* handleConnection awaits jwtService.verifyAsync: a socket is "verifying"  *)
(* between the call and its answer, and other events are handled meanwhile. *)
(* early records that the socket went away while it was verifying.          *)

\* what a handshake carries: no token, a token verifyAsync rejects, a token
\* whose payload has neither sub nor userId, or a valid token of a user
Tokens == {"none", "invalid", "nouser"} \cup Users

MapSet(map, k, v) == [ x \in (DOMAIN map) \cup {k} |-> IF x = k THEN v ELSE map[x] ]
MapDelete(map, k) == [ x \in (DOMAIN map) \ {k} |-> map[x] ]

\* handleDisconnect(client)
handleDisconnect(map, client) ==
    IF client.userId # "none" THEN MapDelete(map, client.userId) ELSE map

\* isUserOnline(userId)
isUserOnline(u) == u \in DOMAIN connectedUsers

\* sendToUser(userId, notification) emits in real time
sendToUserEmits(u) == u \in DOMAIN connectedUsers /\ connectedUsers[u] \in Sockets

\* a client connects: handleConnection runs up to its await, or ends at once
\* with client.disconnect() when there is no token
SocketConnect(s, token) ==
    /\ sockets[s].pc = "new"
    /\ sockets' = [ sockets EXCEPT ![s] =
          IF token = "none"
          THEN [ @ EXCEPT !.pc = "done", !.token = token, !.connected = FALSE ]
          ELSE [ @ EXCEPT !.pc = "verifying", !.token = token, !.connected = TRUE ] ]
    /\ UNCHANGED <<connectedUsers, cartVars, handlers, reviews, orders, reviewCalls, scan>>

\* verifyAsync has answered: handleConnection runs from its await to its end
VerifyDone(s) ==
    LET client == sockets[s]
    IN  /\ client.pc = "verifying"
        /\ IF client.token \in Users
           THEN /\ sockets' = [ sockets EXCEPT ![s] =
                      [ @ EXCEPT !.pc = "done", !.userId = client.token ] ]
                /\ connectedUsers' = MapSet(connectedUsers, client.token, s)
           ELSE \* rejected, or no userId in the payload: client.disconnect()
                /\ sockets' = [ sockets EXCEPT ![s] =
                      [ @ EXCEPT !.pc = "done", !.connected = FALSE ] ]
                /\ connectedUsers' = handleDisconnect(connectedUsers, client)
        /\ UNCHANGED <<cartVars, handlers, reviews, orders, reviewCalls, scan>>

\* the client goes away: handleDisconnect(client)
SocketDisconnect(s) ==
    LET client == sockets[s]
    IN  /\ client.connected
        /\ sockets' = [ sockets EXCEPT ![s] =
              [ @ EXCEPT !.connected = FALSE, !.early = (client.pc = "verifying") ] ]
        /\ connectedUsers' = handleDisconnect(connectedUsers, client)
        /\ UNCHANGED <<cartVars, handlers, reviews, orders, reviewCalls, scan>>

NextGateway ==
    \/ \E s \in Sockets, token \in Tokens : SocketConnect(s, token)
    \/ \E s \in Sockets : VerifyDone(s)
    \/ \E s \in Sockets : SocketDisconnect(s)

InitGateway == CartUnused /\ GatewayAtRest /\ ReviewsAtRest /\ ScanAtRest

SpecGateway == InitGateway /\ [][NextGateway]_vars

----------------------------------------------------------------------------
(* ReviewsService (src/src/dermatologists/dto/create-dermatologist.dto.ts,  *)
(* lines 47-247).  Every call is resumed at its awaits; calls may overlap.  *)
(* A review row is [reviewId, userId, productId, rating]; the row a create  *)
(* saves gets the number of the call as its reviewId.                       *)

\* the orders of the shop: u1 has p1 delivered and p2 on its way, u2 has p1
\* delivered
ShopOrders ==
    { [ orderId |-> 1, userId |-> "u1", status |-> "DELIVERED", items |-> {"p1"} ],
      [ orderId |-> 2, userId |-> "u1", status |-> "PENDING",   items |-> {"p2"} ],
      [ orderId |-> 3, userId |-> "u2", status |-> "DELIVERED", items |-> {"p1"} ] }

\* the rating a create gives, the rating an update sets
CreateRating == 3
UpdateRating == 5

\* any order of the user counts, whatever its status
hasUserOrderedProduct(u, p) ==
    LET userOrders == { o \in orders : o.userId = u }
    IN  IF userOrders = {} THEN FALSE
        ELSE \E o \in userOrders : p \in o.items

\* hasUserPurchasedProduct(userId, productId)
hasUserPurchasedProduct(u, p) ==
    LET completedOrders == { o \in orders : o.userId = u /\ o.status = "DELIVERED" }
    IN  IF completedOrders = {} THEN FALSE
        ELSE \E o \in completedOrders : p \in o.items

\* reviewRepository.findOne({ where: { userId, productId } }) finds a row
ExistingReview(u, p) == \E r \in reviews : r.userId = u /\ r.productId = p

\* reviewRepository.findOne({ where: { reviewId } }) finds a row
ReviewById(id) == { r \in reviews : r.reviewId = id }

ReviewStep(c, call) == reviewCalls' = [ reviewCalls EXCEPT ![c] = call ]

ReviewFrame == UNCHANGED <<cartVars, handlers, sockets, connectedUsers, scan, orders>>

\* create(userId, dto), to the answer of hasUserPurchasedProduct
CreateBegin(c, u, p) ==
    /\ reviewCalls[c].pc = "idle"
    /\ ReviewStep(c, [ reviewCalls[c] EXCEPT
          !.op = "create", !.userId = u, !.productId = p, !.rating = CreateRating,
          !.reviewId = c,
          !.pc = IF hasUserPurchasedProduct(u, p) THEN "check" ELSE "done",
          !.error = IF hasUserPurchasedProduct(u, p) THEN "none"
                    ELSE "ForbiddenException" ])
    /\ UNCHANGED reviews
    /\ ReviewFrame

\* create, from the answer of findOne({ userId, productId }) to the save
CreateCheck(c) ==
    LET call == reviewCalls[c]
    IN  /\ call.op = "create" /\ call.pc = "check"
        /\ ReviewStep(c, IF ExistingReview(call.userId, call.productId)
                         THEN [ call EXCEPT !.pc = "done", !.dup = TRUE,
                                            !.error = "BadRequestException" ]
                         ELSE [ call EXCEPT !.pc = "save" ])
        /\ UNCHANGED reviews
        /\ ReviewFrame

\* create: reviewRepository.save(review) inserts the row.  The Review entity
\* is not part of the sources: with a unique key on (userId, productId) the
\* insert of a second row is rejected by the database instead.
CreateSave(c) ==
    LET call == reviewCalls[c]
        row == [ reviewId |-> c, userId |-> call.userId,
                 productId |-> call.productId, rating |-> call.rating ]
        dup == ExistingReview(call.userId, call.productId)
    IN  /\ call.op = "create" /\ call.pc = "save"
        /\ \/ /\ reviews' = reviews \cup {row}
              /\ ReviewStep(c, [ call EXCEPT !.pc = "done", !.dup = dup ])
           \/ /\ dup
              /\ reviews' = reviews
              /\ ReviewStep(c, [ call EXCEPT !.pc = "done", !.dup = dup,
                                             !.error = "QueryFailedError" ])
        /\ ReviewFrame

\* update / remove, to the answer of findOne({ reviewId }) and the two checks
LoadReview(c, op, u, id) ==
    LET found == ReviewById(id)
        error == IF found = {} THEN "NotFoundException"
                 ELSE IF \E r \in found : r.userId # u THEN "ForbiddenException"
                 ELSE "none"
    IN  /\ reviewCalls[c].pc = "idle"
        /\ ReviewStep(c, [ reviewCalls[c] EXCEPT
              !.op = op, !.userId = u, !.reviewId = id,
              !.productId = IF found = {} THEN "none"
                            ELSE (CHOOSE r \in found : TRUE).productId,
              !.rating = IF op = "update" THEN UpdateRating ELSE 0,
              !.error = error,
              !.pc = IF error = "none" THEN "write" ELSE "done" ])
        /\ UNCHANGED reviews
        /\ ReviewFrame

\* update: Object.assign(review, dto); reviewRepository.save(review)
UpdateSave(c) ==
    LET call == reviewCalls[c]
        row == [ reviewId |-> call.reviewId, userId |-> call.userId,
                 productId |-> call.productId, rating |-> call.rating ]
    IN  /\ call.op = "update" /\ call.pc = "write"
        /\ reviews' = (reviews \ ReviewById(call.reviewId)) \cup {row}
        /\ ReviewStep(c, [ call EXCEPT !.pc = "done" ])
        /\ ReviewFrame

\* remove: reviewRepository.remove(review)
RemoveDelete(c) ==
    LET call == reviewCalls[c]
    IN  /\ call.op = "remove" /\ call.pc = "write"
        /\ reviews' = reviews \ ReviewById(call.reviewId)
        /\ ReviewStep(c, [ call EXCEPT !.pc = "done" ])
        /\ ReviewFrame

NextReviews ==
    \/ \E c \in ReviewCallIds, u \in Users, p \in Products : CreateBegin(c, u, p)
    \/ \E c \in ReviewCallIds : CreateCheck(c)
    \/ \E c \in ReviewCallIds : CreateSave(c)
    \/ \E c \in ReviewCallIds, op \in {"update", "remove"}, u \in Users,
          id \in ReviewCallIds : LoadReview(c, op, u, id)
    \/ \E c \in ReviewCallIds : UpdateSave(c)
    \/ \E c \in ReviewCallIds : RemoveDelete(c)

InitReviews ==
    /\ CartUnused /\ GatewayAtRest /\ ScanAtRest
    /\ reviews = {}
    /\ orders = ShopOrders
    /\ reviewCalls = NoReviewCalls

SpecReviews == InitReviews /\ [][NextReviews]_vars

----------------------------------------------------------------------------
(* SkinAnalysisService.diseaseDetection (src/src/skin-analysis/             *)
(* skin-analysis.service.ts, lines 326-429): one call at a time, resumed at *)
(* its awaits.  What the collaborators answer (database, face detection,    *)
(* Cloudinary, the two AI calls) is chosen freely; events is the log of the *)
(* answers the call has got, saved the analyses in the repository.          *)

ScanFrame ==
    UNCHANGED <<cartVars, handlers, sockets, connectedUsers, reviews, orders, reviewCalls>>

\* the notes of a call: 'facial', something else, or none
NotesCases == {"facial", "other", "none"}

ScanStep(pc, event, error) ==
    [ scan EXCEPT !.pc = pc, !.events = Append(@, event), !.error = error ]

\* detectFace(file): has_face of the answer, true when the service fails
detectFace(answer) ==
    IF answer = "failed" THEN TRUE ELSE answer = "face"

\* the log entry of the face-detection answer
FaceEvent(answer) ==
    IF answer = "face" THEN "face"
    ELSE IF answer = "failed" THEN "faceFailed" ELSE "noFace"

\* diseaseDetection is called: validateCustomer(customerId)
ScanBegin(notes, customer) ==
    /\ scan.pc \in {"idle", "done"}
    /\ scan.calls < MaxScans
    /\ scan' =
          [ scan EXCEPT
              !.calls = @ + 1, !.notes = notes, !.savedBefore = Len(scan.saved),
              !.cls = "none", !.seg = "none", !.mask = "null",
              !.events = <<customer>>,
              !.error = IF customer = "found" THEN "none"
                        ELSE IF customer = "unknown" THEN "NotFoundException"
                        ELSE "BadRequestException",
              !.pc = IF customer # "found" THEN "done"
                     ELSE IF notes = "facial" THEN "face" ELSE "upload" ]
    /\ ScanFrame

\* if (notes === 'facial'): await this.detectFace(file)
FaceChecked(answer) ==
    /\ scan.pc = "face"
    /\ scan' = IF detectFace(answer)
               THEN ScanStep("upload", FaceEvent(answer), "none")
               ELSE ScanStep("done", FaceEvent(answer), "BadRequestException")
    /\ ScanFrame

\* await this.cloudinaryService.uploadImage(file, ...)
ImageUploaded(ok) ==
    /\ scan.pc = "upload"
    /\ scan' = IF ok
               THEN [ ScanStep("ai", "image", "none")
                        EXCEPT !.cls = "pending", !.seg = "pending" ]
               ELSE ScanStep("done", "imageFailed", "UploadError")
    /\ ScanFrame

\* both AI calls have answered: the Promise.all resolves
AiNext(cls, seg) ==
    IF cls = "ok" /\ seg \in {"mask", "nomask"}
    THEN IF seg = "mask" THEN "mask" ELSE "save"
    ELSE "ai"

\* classifyDisease(file, ...) answers; a failure rejects the Promise.all
Classified(ok) ==
    /\ scan.pc = "ai" /\ scan.cls = "pending"
    /\ scan' = IF ok
               THEN [ ScanStep(AiNext("ok", scan.seg), "classified", "none")
                        EXCEPT !.cls = "ok" ]
               ELSE ScanStep("done", "classifyFailed", "HttpException")
    /\ ScanFrame

\* segmentDisease(file) answers, with or without a mask; a failure rejects
\* the Promise.all
Segmented(answer) ==
    /\ scan.pc = "ai" /\ scan.seg = "pending"
    /\ scan' = IF answer \in {"mask", "nomask"}
               THEN [ ScanStep(AiNext(scan.cls, answer), "segmented", "none")
                        EXCEPT !.seg = answer ]
               ELSE ScanStep("done", "segmentFailed", "HttpException")
    /\ ScanFrame

\* uploadBase64ToCloudinary(mask, ...): the url, or null when the upload fails
MaskUploaded(ok) ==
    /\ scan.pc = "mask"
    /\ scan' = [ ScanStep("save", IF ok THEN "maskUploaded" ELSE "maskFailed", "none")
                   EXCEPT !.mask = IF ok THEN "url" ELSE "null" ]
    /\ ScanFrame

\* the analysis is saved as soon as the AI calls have answered
AnalysisSavedEarly ==
    /\ scan.pc \in {"ai", "save"}
    /\ scan' = [ scan EXCEPT
          !.pc = "done",
          !.saved = Append(@, [ source |-> "AI_SCAN", notes |-> scan.notes,
                                mask |-> scan.mask, events |-> scan.events ]) ]
    /\ ScanFrame

\* this.skinAnalysisRepository.save(entity)
AnalysisSaved ==
    /\ scan.pc = "save"
    /\ scan' = [ scan EXCEPT
          !.pc = "done",
          !.saved = Append(@, [ source |-> "AI_SCAN", notes |-> scan.notes,
                                mask |-> scan.mask, events |-> scan.events ]) ]
    /\ ScanFrame

NextScan ==
    \/ \E notes \in NotesCases, customer \in {"found", "unknown", "dbError"} :
          ScanBegin(notes, customer)
    \/ \E answer \in {"face", "noface", "failed"} : FaceChecked(answer)
    \/ \E ok \in BOOLEAN : ImageUploaded(ok)
    \/ \E ok \in BOOLEAN : Classified(ok)
    \/ \E answer \in {"mask", "nomask", "failed"} : Segmented(answer)
    \/ \E ok \in BOOLEAN : MaskUploaded(ok)
    \/ AnalysisSaved

InitScan ==
    /\ CartUnused /\ GatewayAtRest /\ ReviewsAtRest
    /\ scan = NoScan

SpecScan == InitScan /\ [][NextScan]_vars

----------------------------------------------------------------------------
(* Adding to the cart over a catalog of the price cases *)

InitPrices ==
    /\ CartAtRest /\ GatewayAtRest /\ ReviewsAtRest /\ ScanAtRest
    /\ store = EmptyStore
    /\ \E f \in [ Products -> PriceCases ] :
          catalog = [ p \in Products |-> ProductOf(p, f[p]) ]
    /\ inventory = [ p \in Products |-> [ available |-> InitStock, reserved |-> 0 ] ]
    /\ held = [ u \in Users |-> [ p \in Products |-> 0 ] ]
    /\ ret = NoRequest

NextPrices ==
    \/ \E p \in Products, q \in 1..MaxQty : AddToCart("u1", p, q)
    \/ \E p \in Products : RemoveFromCart("u1", p)
    \/ ClearCart("u1")

SpecPrices == InitPrices /\ [][NextPrices]_vars

----------------------------------------------------------------------------
(* Properties *)

CartOps ==
    { "addToCart", "updateCartItem", "removeFromCart", "toggleSelectItem",
      "toggleSelectAll", "removeSelectedItems", "removeItemsByProductIds", "clearCart" }

\* the request that has just been served completed without an error
Completed(op) == ret.op = op /\ ret.error = "none"

Stored(u) == CacheHas(store, getCartKey(u))
StoredCart(u) == store[getCartKey(u)].value

TotalsConsistent(cart) ==
    /\ cart.totalItems = SumQuantity(cart.items)
    /\ cart.totalPrice = SumPrice(cart.items)

\* C1: after every completed cart mutation the returned cart and every stored
\* cart have totalItems = sum of the quantities and totalPrice = sum of
\* price * quantity over their items.
C1_TotalsConsistent ==
    /\ \A u \in Users : Stored(u) => TotalsConsistent(StoredCart(u))
    /\ (ret.op \in CartOps /\ ret.error = "none") => TotalsConsistent(ret.cart)

\* a completed updateCartItem has left a stored cart of two items, one of them
\* with more than one unit
C1_Witness ==
    /\ Completed("updateCartItem")
    /\ Stored(ret.userId)
    /\ StoredCart(ret.userId) = ret.cart
    /\ Len(ret.cart.items) = 2
    /\ ret.cart.totalItems > 2
    /\ ret.cart.totalPrice > 0

\* the quantity of product p in user u's stored cart, 0 when there is no item
QuantityInCart(u, p) ==
    IF Stored(u) /\ FindIndex(StoredCart(u).items, p) > 0
    THEN StoredCart(u).items[FindIndex(StoredCart(u).items, p)].quantity
    ELSE 0

\* C2: whenever an item for a product is in a user's stored cart, the units
\* reserved through that user's cart calls for the product equal the item's
\* quantity.
C2_ReservationEqualsQuantity ==
    \A u \in Users, p \in Products :
        QuantityInCart(u, p) > 0 => held[u][p] = QuantityInCart(u, p)

\* C3: a stored cart record is either absent or holds at least one item.
C3_NoEmptyCartStored ==
    \A u \in Users : Stored(u) => Len(StoredCart(u).items) >= 1

\* C4: a stored cart holds at most one item per productId.
C4_OneItemPerProduct ==
    \A u \in Users :
        Stored(u) =>
            \A i, j \in 1..Len(StoredCart(u).items) :
                StoredCart(u).items[i].productId = StoredCart(u).items[j].productId
                    => i = j

\* addToCart has just added units to a product that was in the cart already,
\* beside another item
C4_Witness ==
    /\ Completed("addToCart")
    /\ Len(ret.cart.items) = 2
    /\ \E i \in 1..2 :
          /\ ret.cart.items[i].productId = ret.productId
          /\ ret.cart.items[i].quantity > ret.quantity

\* the items of user u's cart as getCart sees them
ItemsOf(s, u) == getCart(s, u).items

\* the request served by this step is a call of op (environment steps reset ret)
Served(op) == ret'.op = op

\* the request served by this step called reserveStock and was refused
ReserveRefused == \E i \in 1..Len(ret'.calls) :
    ret'.calls[i].fn = "reserveStock" /\ ~ret'.calls[i].success

\* C5: an addToCart whose reservation the inventory refuses fails with a
\* bad-request error (insufficient stock) and leaves the stored cart record
\* as it was.
C5_AddRefusedLeavesCart ==
    [][ ( Served("addToCart") /\ ReserveRefused )
        => /\ ret'.error = "BadRequestException"
           /\ ret'.message = "insufficient stock"
           /\ store' = store ]_vars

\* addToCart has been refused while the user's cart held an item
C5_Witness ==
    /\ ret.op = "addToCart"
    /\ ret.message = "insufficient stock"
    /\ Stored(ret.userId)
    /\ Len(StoredCart(ret.userId).items) >= 1
    /\ ret.calls = <<ReserveCall(ret.productId, ret.quantity, FALSE)>>

\* C6: a successful addToCart of a product that is not in the cart appends one
\* item with selected = TRUE and the requested quantity, leaves the other items
\* as they were and makes one reserveStock call, for the requested quantity.
C6_AddNewProduct ==
    [][ \A p \in Products :
          ( /\ Served("addToCart")
            /\ ret'.error = "none"
            /\ ret'.productId = p
            /\ FindIndex(ItemsOf(store, ret'.userId), p) = 0 )
          => LET old == ItemsOf(store, ret'.userId)
                 new == ItemsOf(store', ret'.userId)
             IN  /\ Len(new) = Len(old) + 1
                 /\ SubSeq(new, 1, Len(old)) = old
                 /\ new[Len(new)].productId = p
                 /\ new[Len(new)].selected = TRUE
                 /\ new[Len(new)].quantity = ret'.quantity
                 /\ ret'.cart.items = new
                 /\ ret'.calls = <<ReserveCall(p, ret'.quantity, TRUE)>>
                 /\ inventory'[p].reserved = inventory[p].reserved + ret'.quantity ]_vars

\* a new product has been added, with more than one unit, behind another item
C6_Witness ==
    /\ Completed("addToCart")
    /\ Len(ret.cart.items) = 2
    /\ ret.cart.items[2].productId = ret.productId
    /\ ret.cart.items[2].quantity = ret.quantity
    /\ ret.quantity > 1
    /\ StoredCart(ret.userId) = ret.cart

\* C7: a successful addToCart of a product that is in the cart with quantity
\* q1 leaves one item for it, with quantity q1 + q2 and with price,
\* originalPrice and salePercentage computed from the catalog as it is at this
\* call; the call reserves q2 units, its own increment.
C7_AddExistingProduct ==
    [][ \A p \in Products :
          ( /\ Served("addToCart")
            /\ ret'.error = "none"
            /\ ret'.productId = p
            /\ FindIndex(ItemsOf(store, ret'.userId), p) > 0 )
          => LET old == ItemsOf(store, ret'.userId)
                 new == ItemsOf(store', ret'.userId)
                 i == FindIndex(old, p)
             IN  /\ Len(new) = Len(old)
                 /\ \A j \in 1..Len(new) : (new[j].productId = p) <=> (j = i)
                 /\ \A j \in 1..Len(new) : j # i => new[j] = old[j]
                 /\ new[i].quantity = old[i].quantity + ret'.quantity
                 /\ new[i].originalPrice = catalog[p].sellingPrice
                 /\ new[i].price =
                        IF catalog[p].salePercentage = Null \/ catalog[p].salePercentage <= 0
                        THEN catalog[p].sellingPrice
                        ELSE RoundDiv100(catalog[p].sellingPrice
                                           * (100 - catalog[p].salePercentage))
                 /\ new[i].salePercentage =
                        IF catalog[p].salePercentage = Null THEN 0
                        ELSE catalog[p].salePercentage
                 /\ ret'.calls = <<ReserveCall(p, ret'.quantity, TRUE)>>
                 /\ inventory'[p].reserved = inventory[p].reserved + ret'.quantity ]_vars

\* a product has been added a second time, beside another item, and its item
\* carries the sale price of the catalog as it is now
C7_Witness ==
    /\ Completed("addToCart")
    /\ Len(ret.cart.items) = 2
    /\ ret.cart.items[1].productId = ret.productId
    /\ ret.cart.items[1].quantity > ret.quantity
    /\ ret.cart.items[1].originalPrice = catalog[ret.productId].sellingPrice
    /\ ret.cart.items[1].price < ret.cart.items[1].originalPrice
    /\ StoredCart(ret.userId) = ret.cart

\* C8: updateCartItem with a quantity <= 0 fails with a bad-request error, calls
\* neither reserveStock nor releaseReservation and leaves the stored cart as it
\* was.
C8_UpdateNonPositive ==
    [][ ( Served("updateCartItem") /\ ret'.quantity <= 0 )
        => /\ ret'.error = "BadRequestException"
           /\ ret'.message = "quantity must be greater than 0"
           /\ ret'.calls = <<>>
           /\ inventory' = inventory
           /\ store' = store ]_vars

\* updateCartItem has been called with quantity 0 for a product of the cart
C8_Witness ==
    /\ ret.op = "updateCartItem"
    /\ ret.quantity = 0
    /\ QuantityInCart(ret.userId, ret.productId) > 0

\* C9: an updateCartItem that raises an item's quantity and whose reservation
\* of the difference is refused fails with a bad-request error (insufficient
\* stock) and leaves the stored cart record, its totals and the item's quantity
\* as they were.
C9_UpdateRefusedLeavesCart ==
    [][ \A p \in Products :
          ( /\ Served("updateCartItem")
            /\ ret'.productId = p
            /\ ret'.quantity > 0
            /\ FindIndex(ItemsOf(store, ret'.userId), p) > 0
            /\ ret'.quantity > QuantityInCart(ret'.userId, p)
            /\ ReserveRefused )
          => /\ ret'.error = "BadRequestException"
             /\ ret'.message = "insufficient stock"
             /\ store' = store
             /\ getCart(store', ret'.userId) = getCart(store, ret'.userId) ]_vars

\* a raise of an item's quantity has been refused
C9_Witness ==
    /\ ret.op = "updateCartItem"
    /\ ret.message = "insufficient stock"
    /\ QuantityInCart(ret.userId, ret.productId) > 0
    /\ ret.quantity > QuantityInCart(ret.userId, ret.productId)
    /\ ret.calls = <<ReserveCall(ret.productId,
                                 ret.quantity - QuantityInCart(ret.userId, ret.productId),
                                 FALSE)>>

\* C10: the number of units an updateCartItem refused for insufficient stock
\* reports is the number of units available in the inventory for the product.
C10_ReportedIsAvailable ==
    ( ret.op = "updateCartItem" /\ ret.message = "insufficient stock" )
        => ret.reported = inventory[ret.productId].available

----------------------------------------------------------------------------
\* the last request found the user's cart record as it is now
CartUntouched ==
    /\ Stored(ret.userId) = ret.existed
    /\ getCart(store, ret.userId) = ret.before

\* the items of the user's cart after the last request
ItemsNow == getCart(store, ret.userId).items

\* C11: a successful updateCartItem from oldQuantity to newQuantity makes the
\* one inventory call its difference asks for (reserveStock of the difference
\* when it is positive, releaseReservation of its absolute value when it is
\* negative, no call when it is zero), sets the item's quantity to newQuantity
\* and leaves every other item, and the item's other fields, as they were.
C11_UpdateCallsAndQuantity ==
    Completed("updateCartItem") =>
        LET old == ret.before.items
            diff(i) == ret.quantity - old[i].quantity
        IN  /\ ret.quantity > 0
            /\ Len(ItemsNow) = Len(old)
            /\ ret.cart.items = ItemsNow
            /\ \E i \in 1..Len(old) :
                  /\ old[i].productId = ret.productId
                  /\ ret.calls =
                        IF diff(i) > 0 THEN <<ReserveCall(ret.productId, diff(i), TRUE)>>
                        ELSE IF diff(i) < 0 THEN <<ReleaseCall(ret.productId, 0 - diff(i))>>
                        ELSE <<>>
                  /\ ItemsNow[i].quantity = ret.quantity
                  /\ [ ItemsNow[i] EXCEPT !.quantity = old[i].quantity ] = old[i]
                  /\ \A j \in 1..Len(old) : j # i => ItemsNow[j] = old[j]

\* an item's quantity has been lowered, with another item in the cart
C11_Witness ==
    /\ Completed("updateCartItem")
    /\ Len(ret.before.items) = 2
    /\ ret.calls = <<ReleaseCall(ret.productId, 1)>>
    /\ QuantityInCart(ret.userId, ret.productId) = ret.quantity

\* C12: removeFromCart of the only item of a cart deletes the stored record,
\* and getCart for a user without a record returns an empty cart (no items,
\* totals 0) and no error.
C12_RemoveLastThenGetCart ==
    /\ ( Completed("removeFromCart") /\ Len(ret.before.items) = 1 )
          => /\ ~Stored(ret.userId)
             /\ ret.writes = <<DelWrite(getCartKey(ret.userId))>>
    /\ ( ret.op = "getCart" /\ ~Stored(ret.userId) )
          => /\ ret.error = "none"
             /\ ret.cart.items = <<>>
             /\ ret.cart.totalItems = 0
             /\ ret.cart.totalPrice = 0

\* the only item of a stored cart has been removed
C12_Witness ==
    /\ Completed("removeFromCart")
    /\ ret.existed
    /\ Len(ret.before.items) = 1
    /\ ~Stored(ret.userId)

\* C13: a successful removeFromCart makes one releaseReservation call, for the
\* product and the item's quantity, removes that item and leaves the other
\* items as they were.
C13_RemoveReleasesAndRemoves ==
    Completed("removeFromCart") =>
        LET old == ret.before.items
        IN  \E i \in 1..Len(old) :
              /\ old[i].productId = ret.productId
              /\ ret.calls = <<ReleaseCall(ret.productId, old[i].quantity)>>
              /\ Len(ItemsNow) = Len(old) - 1
              /\ ret.cart.items = ItemsNow
              /\ \A j \in 1..Len(ItemsNow) :
                    ItemsNow[j] = IF j < i THEN old[j] ELSE old[j + 1]

\* the first of two items has been removed
C13_Witness ==
    /\ Completed("removeFromCart")
    /\ Len(ret.before.items) = 2
    /\ ret.before.items[1].productId = ret.productId
    /\ ItemsNow = <<ret.before.items[2]>>

\* C14: clearCart makes one releaseReservation call per item of the cart, in
\* order, each for the item's product and full quantity (none when the user
\* has no cart), and leaves no stored record.
C14_ClearReleasesEveryItem ==
    Completed("clearCart") =>
        LET old == ret.before.items
        IN  /\ Len(ret.calls) = Len(old)
            /\ \A j \in 1..Len(old) :
                  ret.calls[j] = ReleaseCall(old[j].productId, old[j].quantity)
            /\ ~Stored(ret.userId)

\* a cart of two items, one of them with two units, has been cleared
C14_Witness ==
    /\ Completed("clearCart")
    /\ Len(ret.before.items) = 2
    /\ Len(ret.calls) = 2
    /\ ret.calls[1].quantity = 2
    /\ ~Stored(ret.userId)

\* C15: when a releaseReservation call of clearCart fails, the calls for the
\* items behind it are made all the same (one call per item of the cart) and
\* the stored record is deleted.
C15_ClearBestEffort ==
    ( ret.op = "clearCart" /\ \E i \in 1..Len(ret.calls) : ~ret.calls[i].success )
        => /\ Len(ret.calls) = Len(ret.before.items)
           /\ ~Stored(ret.userId)

\* after consists of exactly the items of before that Keep holds of, unchanged
\* and in the order they had in before
KeptExactly(before, after, Keep(_)) ==
    /\ \A j \in 1..Len(after) :
          \E i \in 1..Len(before) : before[i] = after[j] /\ Keep(before[i])
    /\ \A i \in 1..Len(before) :
          Keep(before[i]) => \E j \in 1..Len(after) : after[j] = before[i]
    /\ \A j, k \in 1..Len(after) :
          j < k => FindIndex(before, after[j].productId)
                      < FindIndex(before, after[k].productId)

\* the stored record is gone when no item is left, and holds the items left
\* otherwise
GoneOrPersisted(items) ==
    IF Len(items) = 0
    THEN ~Stored(ret.userId)
    ELSE Stored(ret.userId) /\ StoredCart(ret.userId).items = items

\* C16: removeSelectedItems keeps exactly the items whose selected flag is not
\* true, in their order and unchanged, makes no inventory call, and deletes
\* the stored record when no item remains, otherwise persists what remains.
C16_RemoveSelectedKeepsUnselected ==
    Completed("removeSelectedItems") =>
        /\ KeptExactly(ret.before.items, ret.cart.items,
                       LAMBDA item : item.selected # TRUE)
        /\ ret.calls = <<>>
        /\ GoneOrPersisted(ret.cart.items)

\* of a selected and an unselected item the unselected one is left
C16_Witness ==
    /\ Completed("removeSelectedItems")
    /\ Len(ret.before.items) = 2
    /\ ret.before.items[1].selected
    /\ ~ret.before.items[2].selected
    /\ ItemsNow = <<ret.before.items[2]>>

\* C17: removeItemsByProductIds fails with NotFound on a cart without items and
\* leaves the store as it was; otherwise it removes exactly the items whose
\* productId is in the given set, makes no inventory call, deletes the record
\* and returns an empty cart when nothing remains, and otherwise persists the
\* remaining items.
C17_RemoveByIds ==
    ret.op = "removeItemsByProductIds" =>
        IF Len(ret.before.items) = 0
        THEN /\ ret.error = "NotFoundException"
             /\ ret.calls = <<>>
             /\ CartUntouched
        ELSE /\ ret.error = "none"
             /\ ret.calls = <<>>
             /\ KeptExactly(ret.before.items, ret.cart.items,
                            LAMBDA item : item.productId \notin ret.productIds)
             /\ GoneOrPersisted(ret.cart.items)
             /\ Len(ret.cart.items) = 0 => ret.cart = EmptyCart(ret.userId)

\* of two items the listed one is removed and the other one is persisted
C17_Witness ==
    /\ Completed("removeItemsByProductIds")
    /\ Len(ret.before.items) = 2
    /\ ret.productIds = {ret.before.items[1].productId}
    /\ ItemsNow = <<ret.before.items[2]>>

\* C18: toggleSelectItem and toggleSelectAll change only selected flags (the
\* one item's, respectively every item's, to the given value): no inventory
\* call, the same items in the same order with their other fields, and the
\* same totalItems and totalPrice.
C18_TogglesChangeFlagsOnly ==
    ( Completed("toggleSelectItem") \/ Completed("toggleSelectAll") ) =>
        LET old == ret.before.items
            new == ret.cart.items
        IN  /\ ret.calls = <<>>
            /\ ItemsNow = new
            /\ Len(new) = Len(old)
            /\ \A j \in 1..Len(old) :
                  /\ [ new[j] EXCEPT !.selected = old[j].selected ] = old[j]
                  /\ new[j].selected =
                        IF ret.op = "toggleSelectAll" \/ old[j].productId = ret.productId
                        THEN ret.selected
                        ELSE old[j].selected
            /\ ret.cart.totalItems = ret.before.totalItems
            /\ ret.cart.totalPrice = ret.before.totalPrice

\* one of two selected items has been unselected
C18_Witness ==
    /\ Completed("toggleSelectItem")
    /\ Len(ret.before.items) = 2
    /\ ret.before.items[1].selected /\ ret.before.items[2].selected
    /\ ret.before.items[2].productId = ret.productId
    /\ ret.selected = FALSE
    /\ ItemsNow[1].selected /\ ~ItemsNow[2].selected

\* C19: getCart never fails and changes neither the store nor the inventory:
\* without a record it returns an empty cart (no items, totalItems = 0,
\* totalPrice = 0) and there is still no record afterwards; with a record it
\* returns that record.
C19_GetCartReadsOnly ==
    [][ Served("getCart") =>
          /\ ret'.error = "none"
          /\ store' = store
          /\ inventory' = inventory
          /\ IF CacheHas(store, getCartKey(ret'.userId))
             THEN ret'.cart = store[getCartKey(ret'.userId)].value
             ELSE /\ ret'.cart.items = <<>>
                  /\ ret'.cart.totalItems = 0
                  /\ ret'.cart.totalPrice = 0
                  /\ ~CacheHas(store', getCartKey(ret'.userId)) ]_vars

\* getCart has been served for a user without a record, and there is none
C19_Witness ==
    /\ Completed("getCart")
    /\ ~ret.existed
    /\ ret.cart.items = <<>>
    /\ ~Stored(ret.userId)

\* the writes of the last request that set a key
SetWrites == { i \in 1..Len(ret.writes) : ret.writes[i].fn = "set" }

\* C20 as stated: every set the Cart Service makes uses a TTL of exactly
\* 86,400,000 ms.
C20_EveryWriteCartTtl ==
    \A i \in SetWrites : ret.writes[i].ttl = 86400000

\* C20: every set of a cart record (key cart:userId) uses a TTL of exactly
\* 86,400,000 ms, and so every stored record carries it; the only other set is
\* the connection test that opens every addToCart, on a key test:timestamp
\* with a TTL of 10,000 ms.
C20_CartWritesCartTtl ==
    /\ \A i \in SetWrites :
          \/ /\ ret.writes[i].key = getCartKey(ret.userId)
             /\ ret.writes[i].ttl = 86400000
          \/ /\ ret.op = "addToCart" /\ i = 1
             /\ ret.writes[i].key[1] = "test"
             /\ ret.writes[i].ttl = 10000
    /\ ret.op = "addToCart" =>
          /\ Len(ret.writes) >= 1
          /\ ret.writes[1].fn = "set" /\ ret.writes[1].key[1] = "test"
    /\ \A k \in DOMAIN store : store[k].ttl = 86400000

\* an addToCart has made its connection-test write and its cart write
C20_Witness ==
    /\ Completed("addToCart")
    /\ Len(ret.writes) = 2
    /\ ret.writes[1].ttl = 10000
    /\ ret.writes[2].ttl = 86400000
    /\ Stored(ret.userId) /\ store[getCartKey(ret.userId)].ttl = 86400000

\* the item of the last request's product in the cart it returned
AddedItem == ret.cart.items[FindIndex(ret.cart.items, ret.productId)]

\* n is x100 / 100 rounded to the nearest integer, a half rounded up
NearestHalfUp(n, x100) == 100 * n - 50 <= x100 /\ x100 < 100 * n + 50

\* C21: the price addToCart stores on the item is the selling price less the
\* sale percentage of it, rounded to the nearest integer (half up), when the
\* sale percentage is positive, and the selling price when it is null, zero or
\* negative; quantity 2 of a product of selling price 1000 at 10 percent added
\* to an empty cart gives price 900, totalPrice 1800 and totalItems 2.
C21_EffectivePrice ==
    Completed("addToCart") =>
        LET product == catalog[ret.productId]
            sale == product.salePercentage
        IN  /\ IF sale # Null /\ sale > 0
               THEN NearestHalfUp(AddedItem.price,
                        100 * product.sellingPrice - product.sellingPrice * sale)
               ELSE AddedItem.price = product.sellingPrice
            /\ ( /\ ret.before.items = <<>>
                 /\ ret.quantity = 2
                 /\ product.sellingPrice = 1000 /\ sale = 10 )
               => /\ AddedItem.price = 900
                  /\ ret.cart.totalPrice = 1800
                  /\ ret.cart.totalItems = 2

\* 15 at 10 percent is 13.5 and is stored as 14
C21_Witness ==
    /\ Completed("addToCart")
    /\ catalog[ret.productId].sellingPrice = 15
    /\ catalog[ret.productId].salePercentage = 10
    /\ AddedItem.price = 14

\* the operations that take items out of a cart
Removals == { "removeFromCart", "removeSelectedItems", "removeItemsByProductIds",
              "clearCart" }

\* the product ids of a list of items
ProductIdsOf(items) == { items[i].productId : i \in 1..Len(items) }

\* C22: with addToCart called with quantities >= 1 only, every item of every
\* stored cart has quantity >= 1; an updateCartItem with a quantity <= 0
\* stores nothing, and a cart operation after which an item is gone is one of
\* the removals.
C22_QuantityAtLeastOne ==
    /\ \A u \in Users : Stored(u) =>
          \A i \in 1..Len(StoredCart(u).items) : StoredCart(u).items[i].quantity >= 1
    /\ ( ret.op = "updateCartItem" /\ ret.quantity <= 0 ) => CartUntouched
    /\ ( ret.op \in CartOps /\ ProductIdsOf(ret.before.items) \ ProductIdsOf(ItemsNow) # {} )
          => ret.op \in Removals

\* the only item of a cart has been lowered from quantity 2 to quantity 1
C22_Witness ==
    /\ Completed("updateCartItem")
    /\ Len(ret.before.items) = 1
    /\ ret.before.items[1].quantity = 2
    /\ Len(ItemsNow) = 1
    /\ ItemsNow[1].quantity = 1

\* C23: updateCartItem with a quantity > 0, removeFromCart and toggleSelectItem
\* for a product that is not in the user's cart each fail with NotFound, make
\* no inventory call and leave the stored record as it was (none stays none).
C23_NotInCartNotFound ==
    ( /\ \/ ret.op = "updateCartItem" /\ ret.quantity > 0
         \/ ret.op = "removeFromCart"
         \/ ret.op = "toggleSelectItem"
      /\ ret.productId \notin ProductIdsOf(ret.before.items) )
        => /\ ret.error = "NotFoundException"
           /\ ret.calls = <<>>
           /\ ret.writes = <<>>
           /\ CartUntouched

\* toggleSelectItem has been refused for a user without a record
C23_Witness ==
    /\ ret.op = "toggleSelectItem"
    /\ ret.error = "NotFoundException"
    /\ ~ret.existed
    /\ ~Stored(ret.userId)

\* the request served by this step is a cart operation of some user
ServedCartOp == ret'.op \in CartOps \cup {"getCart"}

\* the step leaves the record of every user but the requesting one as it was
OthersUntouched ==
    \A u \in Users \ {ret'.userId} :
        /\ CacheHas(store', getCartKey(u)) = CacheHas(store, getCartKey(u))
        /\ getCart(store', u) = getCart(store, u)

\* C24 as stated: a cart operation writes no key but "cart:" + the user's id,
\* and leaves the record of every other user unchanged.
C24_OnlyOwnCartKey ==
    [][ ServedCartOp =>
          /\ \A i \in 1..Len(ret'.writes) :
                ret'.writes[i].key = getCartKey(ret'.userId)
          /\ OthersUntouched ]_vars

\* C24: the only cart record a cart operation of a user writes is the one
\* under "cart:" + that user's id, and it leaves the record of every other
\* user unchanged; the one other key written is the connection-test key
\* "test:" + timestamp that opens every addToCart.
C24_OwnRecordOnly ==
    [][ ServedCartOp =>
          /\ \A i \in 1..Len(ret'.writes) :
                \/ ret'.writes[i].key = getCartKey(ret'.userId)
                \/ /\ ret'.op = "addToCart" /\ i = 1
                   /\ ret'.writes[i].key[1] = "test"
          /\ OthersUntouched ]_vars

\* u1 has cleared its cart while u2 has one, which is still there
C24_Witness ==
    /\ Completed("clearCart")
    /\ ret.userId = "u1"
    /\ Len(ret.before.items) > 0
    /\ ~Stored("u1")
    /\ Stored("u2")
    /\ Len(StoredCart("u2").items) > 0

\* both addToCart calls have returned a cart
BothAdded ==
    \A h \in Handlers : handlers[h].pc = "done" /\ handlers[h].error = "none"

\* the call that wrote first, the call that wrote last
FirstWriter == CHOOSE h \in Handlers : handlers[h].wrote = 1
LastWriter == CHOOSE h \in Handlers : handlers[h].wrote = 2

\* two completed calls for different products that read the same snapshot
SameSnapshot ==
    /\ BothAdded
    /\ handlers["h1"].productId # handlers["h2"].productId
    /\ handlers["h1"].cart = handlers["h2"].cart

\* C25: two addToCart calls of one user for different products, both reserved,
\* that read the same snapshot of the cart: the later write replaces the
\* earlier one, the stored cart lacks the item of the call that wrote first,
\* and the units of both calls stay reserved.
C25_LostUpdate ==
    SameSnapshot =>
        /\ ProductIdsOf(getCart(store, "u1").items) = {handlers[LastWriter].productId}
        /\ getCart(store, "u1").totalItems = handlers[LastWriter].quantity
        /\ \A h \in Handlers :
              /\ held["u1"][handlers[h].productId] = handlers[h].quantity
              /\ inventory[handlers[h].productId].available
                    = InitStock - handlers[h].quantity

\* the update of the first writer is lost
C25_Witness ==
    /\ SameSnapshot
    /\ handlers[FirstWriter].productId \notin ProductIdsOf(getCart(store, "u1").items)
    /\ held["u1"][handlers[FirstWriter].productId] > 0

\* an authenticated socket of user u is still connected
HasLiveSocket(u) ==
    \E s \in Sockets : sockets[s].connected /\ sockets[s].userId = u

\* no handleConnection is at its await, and no socket went away during it
NoneVerifying ==
    \A s \in Sockets : sockets[s].pc # "verifying" /\ ~sockets[s].early

\* C26: after any connects and disconnects, several sockets of one user
\* included, isUserOnline(u) is true exactly when an authenticated socket of u
\* is still connected, and sendToUser emits exactly then; a socket without a
\* token, with an invalid token or with a token without user id makes no user
\* online.
C26_OnlineIffLiveSocket ==
    NoneVerifying =>
        \A u \in Users :
            /\ isUserOnline(u) <=> HasLiveSocket(u)
            /\ sendToUserEmits(u) <=> HasLiveSocket(u)

\* C27: once every socket of a user has disconnected and no handleConnection
\* is pending, that user is not in connectedUsers, also when a socket went
\* away while its token was being verified.
C27_NoEntryAfterEarlyDisconnect ==
    \A u \in Users :
        ( \A s \in Sockets :
              /\ sockets[s].pc # "verifying"
              /\ sockets[s].token = u => ~sockets[s].connected )
            => ~isUserOnline(u)

\* C28: after any create calls, two at once by one user for one product
\* included, there is at most one review per user and product, and a create
\* for a pair that has a review already fails with a bad-request error and
\* saves nothing.
C28_OneReviewPerPair ==
    /\ \A r1, r2 \in reviews :
          ( r1.userId = r2.userId /\ r1.productId = r2.productId ) => r1 = r2
    /\ \A c \in ReviewCallIds :
          ( reviewCalls[c].op = "create" /\ reviewCalls[c].pc = "done"
            /\ reviewCalls[c].dup )
            => /\ reviewCalls[c].error = "BadRequestException"
               /\ ReviewById(c) = {}

\* the user has a DELIVERED order that contains the product
Delivered(u, p) ==
    \E o \in orders : o.userId = u /\ o.status = "DELIVERED" /\ p \in o.items

\* the call of the ReviewsService this step belongs to
ActingCall(c) == reviewCalls'[c] # reviewCalls[c]

\* C29: create fails with Forbidden unless the user has a DELIVERED order
\* with the product; update and remove fail with NotFound when the review
\* does not exist and with Forbidden when it is another user's; a call that
\* fails leaves the reviews as they were, every review saved is one of a
\* buyer, and a review is changed or removed by a call of its owner only.
C29_ReviewGuards ==
    [][ \A c \in ReviewCallIds : ActingCall(c) =>
          LET call == reviewCalls'[c]
              first == reviewCalls[c].pc = "idle"
              found == ReviewById(call.reviewId)
          IN  /\ call.error # "none" => reviews' = reviews
              /\ ( first /\ call.op = "create" ) =>
                    ( call.error = "ForbiddenException"
                        <=> ~Delivered(call.userId, call.productId) )
              /\ ( first /\ call.op \in {"update", "remove"} ) =>
                    call.error =
                        IF found = {} THEN "NotFoundException"
                        ELSE IF \A r \in found : r.userId = call.userId THEN "none"
                        ELSE "ForbiddenException"
              /\ \A r \in reviews' \ reviews :
                    r.userId = call.userId /\ Delivered(r.userId, r.productId)
              /\ \A r \in reviews \ reviews' : r.userId = call.userId ]_vars

\* an update of another user's review has been refused, and the review is as
\* its owner saved it
C29_Witness ==
    \E c \in ReviewCallIds :
        /\ reviewCalls[c].op = "update"
        /\ reviewCalls[c].error = "ForbiddenException"
        /\ \E r \in reviews :
              /\ r.reviewId = reviewCalls[c].reviewId
              /\ r.userId # reviewCalls[c].userId
              /\ r.rating = 3

\* the place of an answer in a log of answers, 0 when it is not there
Place(events, e) ==
    IF \E i \in 1..Len(events) : events[i] = e
    THEN CHOOSE i \in 1..Len(events) : events[i] = e
    ELSE 0

Happened(events, e) == Place(events, e) > 0

\* the answers after which nothing may be saved
Failures == { "unknown", "dbError", "noFace", "imageFailed", "classifyFailed",
              "segmentFailed" }

\* the call of diseaseDetection that is over saved nothing
SavedNothing == Len(scan.saved) = scan.savedBefore

\* C30: an analysis is saved (as AI_SCAN) only after, in this order, the
\* customer was found, the face check passed when notes is 'facial' (a failing
\* face service counts as passed), the image was uploaded and both AI calls
\* answered; an unknown customer, no face or a failing AI call saves nothing;
\* a failed mask upload saves all the same, with mask null.
C30_SavedOnlyAfterAllSteps ==
    /\ \A i \in 1..Len(scan.saved) :
          LET rec == scan.saved[i]
              e == rec.events
              faced == IF Happened(e, "face") THEN Place(e, "face")
                       ELSE Place(e, "faceFailed")
          IN  /\ rec.source = "AI_SCAN"
              /\ Place(e, "found") = 1
              /\ rec.notes = "facial" => 1 < faced
              /\ faced < Place(e, "image")
              /\ Place(e, "image") > 1
              /\ Place(e, "image") < Place(e, "classified")
              /\ Place(e, "image") < Place(e, "segmented")
              /\ \A f \in Failures : ~Happened(e, f)
              /\ rec.mask = "null" <=> ~Happened(e, "maskUploaded")
    /\ scan.pc = "done" =>
          /\ ( \E f \in Failures : Happened(scan.events, f) )
                => scan.error # "none" /\ SavedNothing
          /\ ( \A f \in Failures : ~Happened(scan.events, f) )
                => /\ scan.error = "none"
                   /\ Len(scan.saved) = scan.savedBefore + 1
                   /\ scan.saved[Len(scan.saved)].events = scan.events

\* an analysis has been saved with mask null after the face service and the
\* mask upload failed
C30_Witness ==
    /\ scan.pc = "done"
    /\ scan.notes = "facial"
    /\ Happened(scan.events, "faceFailed")
    /\ Happened(scan.events, "maskFailed")
    /\ Len(scan.saved) = scan.savedBefore + 1
    /\ scan.saved[Len(scan.saved)].mask = "null"

====
